---------------------------- MODULE Spec2Model ----------------------------
(***************************************************************************)
(* A model of lib/Conversion/TritonGPUToLLVM/TritonGPUToLLVM.cpp: the      *)
(* index algebra, the per-lane element mapping of the blocked layout, the  *)
(* lowering rules built on it (make_range, broadcast, view, load) and the  *)
(* type converter.                                                         *)
(*                                                                         *)
(* C++ vectors are modelled as functions over 0..n-1 ("arrays"), so that   *)
(* every subscript of the model is the subscript of the source.            *)
(***************************************************************************)
EXTENDS Integers, Sequences, FiniteSets, TLC

VARIABLES
    ia,       \* the index algebra driven on its own (SpecIndex)
    asserts,  \* whether the build keeps assert() (no NDEBUG)
    op,       \* the operation (or helper call) being lowered
    res,      \* what the lowering produced; status "none" before it ran
    run       \* what has run so far: the groups of an emitted load a thread
              \* has run (SpecLoad), the functions the pass rewrote (SpecPass)

vars == <<ia, asserts, op, res, run>>

----------------------------------------------------------------------------
(* Arrays: functions over 0..n-1.                                          *)

Size(a) == Cardinality(DOMAIN a)

EmptyArr == [i \in {} |-> 0]

RECURSIVE ProdFrom(_, _)
ProdFrom(a, i) == IF i >= Size(a) THEN 1 ELSE a[i] * ProdFrom(a, i + 1)

Product(a) == ProdFrom(a, 0)

Min(a, b) == IF a <= b THEN a ELSE b

Max(a, b) == IF a >= b THEN a ELSE b

----------------------------------------------------------------------------
(* Index algebra: getMultiDimIndex and getLinearIndex.                     *)

\* acc_mul after the first loop of both functions: shape[1] * ... * shape[rank-1]
AccMulInit(shape) == ProdFrom(shape, 1)

\* Integer division and remainder. A zero divisor is undefined behaviour in
\* C++: a build either traps (see DivByZeroIn) or, where the hardware does not
\* trap, computes x / 0 = 0 and x % 0 = x - (x / 0) * 0 = x.
Quot(a, b) == IF b = 0 THEN 0 ELSE a \div b

Rem(a, b) == IF b = 0 THEN a ELSE a % b

\* whether getMultiDimIndex / getLinearIndex divide by zero on this shape:
\* acc_mul is 0, or is divided by a zero extent, iff an extent after the
\* first is 0
DivByZeroIn(shape) == \E i \in DOMAIN shape : i >= 1 /\ shape[i] = 0

\* the acc_mul update at the end of one iteration of the second loop
AccMulNext(shape, i, acc) ==
    IF i # Size(shape) - 1 THEN Quot(acc, shape[i + 1]) ELSE acc

\* the second loop of getMultiDimIndex, from iteration i on
RECURSIVE MultiDimLoop(_, _, _, _, _)
MultiDimLoop(shape, i, remain, acc, multidim) ==
    IF i >= Size(shape) THEN multidim
    ELSE MultiDimLoop(shape, i + 1, Rem(remain, acc), AccMulNext(shape, i, acc),
                      [multidim EXCEPT ![i] = Quot(remain, acc)])

getMultiDimIndex(linear, shape) ==
    MultiDimLoop(shape, 0, linear, AccMulInit(shape), [i \in DOMAIN shape |-> 0])

\* the second loop of getLinearIndex, from iteration i on
RECURSIVE LinearLoop(_, _, _, _, _)
LinearLoop(multidim, shape, i, acc, linear) ==
    IF i >= Size(shape) THEN linear
    ELSE LinearLoop(multidim, shape, i + 1, AccMulNext(shape, i, acc),
                    linear + multidim[i] * acc)

\* a getLinearIndex that starts acc_mul from the product of all extents
getLinearIndex_AccFromAll(multidim, shape) ==
    LinearLoop(multidim, shape, 0, Product(shape), 0)

getLinearIndex(multidim, shape) ==
    LinearLoop(multidim, shape, 0, AccMulInit(shape), 0)

----------------------------------------------------------------------------
(* Layouts and tensor types.                                               *)
(*                                                                         *)
(* A layout is a record with a kind: "blocked" (with sizePerThread,        *)
(* threadsPerWarp, warpsPerCTA and order, arrays of one length), "mma" or  *)
(* "shared". dyn_cast<TritonGPUBlockedEncodingAttr> of a layout of another *)
(* kind is the null attribute.                                             *)

IsBlocked(layout) == layout.kind = "blocked"

\* sizePerThread[k] * threadsPerWarp[k] * warpsPerCTA[k]
TileSize(layout, k) ==
    layout.sizePerThread[k] * layout.threadsPerWarp[k] * layout.warpsPerCTA[k]

\* the invariant the layout and shape are expected to satisfy
Divisible(layout, shape) ==
    \A d \in DOMAIN shape : shape[d] % TileSize(layout, d) = 0

getElemsPerThread(layout, shape) ==
    Product([d \in DOMAIN shape |->
                shape[d] \div (layout.threadsPerWarp[d] * layout.warpsPerCTA[d])])

----------------------------------------------------------------------------
(* delinearize: emitted code, evaluated by every thread on its own ids.    *)

\* the loop of delinearize(linear, shape) for rank > 1, from iteration e on:
\* en.index() = e, en.value() = shape[rank - 1 - e]
RECURSIVE DelinLoop(_, _, _, _)
DelinLoop(shape, e, remained, multiDim) ==
    LET rank == Size(shape) IN
    IF e >= rank - 1 THEN [multiDim EXCEPT ![0] = remained]
    ELSE DelinLoop(shape, e + 1, remained \div shape[rank - 1 - e],
                   [multiDim EXCEPT ![rank - 1 - e] = remained % shape[rank - 1 - e]])

delinearizeShape(linear, shape) ==
    IF Size(shape) = 1 THEN [i \in DOMAIN shape |-> linear]
    ELSE DelinLoop(shape, 0, linear, [i \in DOMAIN shape |-> 0])

delinearize(linear, shape, order) ==
    LET reordered == [i \in DOMAIN shape |-> shape[order[i]]]
    IN delinearizeShape(linear, reordered)

----------------------------------------------------------------------------
(* emitIndicesForBlockedLayout.                                            *)
(*                                                                         *)
(* The function runs once, at compile time, and emits code that every      *)
(* thread runs: the base (step 1) is computed by the thread from its id,   *)
(* the per-element offsets (steps 2 and 3) are constants of the emitted    *)
(* code.                                                                   *)

WarpSize == 32

laneIdOf(threadId) == threadId % WarpSize

warpIdOf(threadId) == threadId \div WarpSize

\* step 1: multiDimBase, for the thread threadId
multiDimBase(layout, threadId) ==
    LET multiDimWarpId ==
            delinearize(warpIdOf(threadId), layout.warpsPerCTA, layout.order)
        multiDimThreadId ==
            delinearize(laneIdOf(threadId), layout.threadsPerWarp, layout.order)
    IN [k \in DOMAIN layout.sizePerThread |->
           layout.sizePerThread[k] *
               (multiDimThreadId[k] + multiDimWarpId[k] * layout.threadsPerWarp[k])]

\* step 2: elemsPerThread
emitElemsPerThread(layout, shape) ==
    Product([k \in DOMAIN shape |->
                (shape[k] \div layout.threadsPerWarp[k]) \div layout.warpsPerCTA[k]])

\* step 2: the number of entries pushed to offset[k]
offsetSize(layout, shape, k) ==
    (shape[k] \div TileSize(layout, k)) * layout.warpsPerCTA[k] *
        layout.threadsPerWarp[k] * layout.sizePerThread[k]

\* step 2: offset[k][j], the j-th value pushed by the four nested loops
offsetAt(layout, k, j) ==
    LET spt == layout.sizePerThread[k]
        tpw == layout.threadsPerWarp[k]
        wpc == layout.warpsPerCTA[k]
        elemOffset == j % spt
        threadOffset == (j \div spt) % tpw
        warpOffset == (j \div (spt * tpw)) % wpc
        blockOffset == j \div (spt * tpw * wpc)
    IN blockOffset * spt * tpw * wpc + warpOffset * spt * tpw +
           threadOffset * spt + elemOffset

accumSizePerThread(layout) == Product(layout.sizePerThread)

threadsPerDim(layout, shape) ==
    [k \in DOMAIN shape |-> shape[k] \div layout.sizePerThread[k]]

\* step 3: multiElemsInNanoTileId of element n
multiElemsInNanoTileId(layout, n) ==
    getMultiDimIndex(n % accumSizePerThread(layout), layout.sizePerThread)

\* step 3: multiDimNanoTileId of element n
multiDimNanoTileId(layout, shape, n) ==
    getMultiDimIndex(n \div accumSizePerThread(layout), threadsPerDim(layout, shape))

\* step 3: reorderedMultiDimId of element n in dimension k
reorderedMultiDimId(layout, shape, n, k) ==
    multiDimNanoTileId(layout, shape, n)[k] * TileSize(layout, k) +
        multiElemsInNanoTileId(layout, n)[k]

\* the reads offset[k][reorderedMultiDimId] past the end of offset[k]
OobReads(layout, shape) ==
    {kid \in UNION {{<<k, reorderedMultiDimId(layout, shape, n, k)>> :
                        k \in DOMAIN shape} :
                    n \in 0 .. emitElemsPerThread(layout, shape) - 1} :
        kid[2] >= offsetSize(layout, shape, kid[1])}

\* the constant added to multiDimBase[k] for element n; junk gives what a
\* read past the end of offset[k] returns
emittedOffset(layout, shape, junk, n, k) ==
    LET id == reorderedMultiDimId(layout, shape, n, k) IN
    IF id < offsetSize(layout, shape, k) THEN offsetAt(layout, k, id)
    ELSE junk[<<k, id>>]

\* What one call produces: the constants of multiDimIdx (offs[n][k]) or no
\* result. Undefined behaviour is a choice among what a build can do:
\*  - getMultiDimIndex(.., threadsPerDim) dividing by zero traps ("crash")
\*    or goes on with the quotients above;
\*  - a read past the end of offset[k] fails SmallVector's assertion
\*    ("fatal") in a build with assertions, and otherwise traps ("crash")
\*    or yields whatever lies there, any of 0 .. MaxJunk.
MaxJunk == 1

NoOffs == EmptyArr

EmitOutcomes(withAsserts, layout, shape) ==
    LET elems == emitElemsPerThread(layout, shape)
        oob == OobReads(layout, shape)
        divZero == elems > 0 /\ DivByZeroIn(threadsPerDim(layout, shape))
    IN (IF divZero THEN {[status |-> "crash", offs |-> NoOffs]} ELSE {})
       \cup
       (IF oob # {} /\ withAsserts
        THEN {[status |-> "fatal", offs |-> NoOffs]}
        ELSE (IF oob # {} THEN {[status |-> "crash", offs |-> NoOffs]} ELSE {})
             \cup
             {[status |-> "success",
               offs |-> [n \in 0 .. elems - 1 |->
                            [k \in DOMAIN shape |->
                                emittedOffset(layout, shape, junk, n, k)]]] :
                 junk \in [oob -> 0 .. MaxJunk]})

\* an index list whose emitted add takes the base on both sides
threadIndices_BaseTwice(layout, offs, threadId) ==
    LET base == multiDimBase(layout, threadId) IN
    [n \in DOMAIN offs |-> [k \in DOMAIN base |-> base[k] + base[k] + offs[n][k]]]

\* the index list the emitted code computes on thread threadId
threadIndices(layout, offs, threadId) ==
    LET base == multiDimBase(layout, threadId) IN
    [n \in DOMAIN offs |-> [k \in DOMAIN base |-> base[k] + offs[n][k]]]

\* the thread ids of a block: laneIndex < prod(threadsPerWarp),
\* warpIndex < prod(warpsPerCTA)
ThreadIds(layout) ==
    {w * WarpSize + l : w \in 0 .. Product(layout.warpsPerCTA) - 1,
                        l \in 0 .. Product(layout.threadsPerWarp) - 1}

----------------------------------------------------------------------------
(* The index algebra, driven on its own: a linear index is decomposed and  *)
(* recomposed (mode "L"), or a multi-dimensional index is recomposed and   *)
(* decomposed (mode "M").                                                  *)

IdxMaxRank == 3

IdxMaxExtent == 3

IdxShapes == UNION {[0 .. r - 1 -> 1 .. IdxMaxExtent] : r \in 1 .. IdxMaxRank}

ValidIndices(shape) ==
    {idx \in [DOMAIN shape -> 0 .. IdxMaxExtent - 1] :
        \A d \in DOMAIN shape : idx[d] < shape[d]}

NoIdx == EmptyArr

NoOp == [kind |-> "none"]

NoRes == [status |-> "none"]

IdxInit ==
    /\ asserts = FALSE
    /\ op = NoOp
    /\ res = NoRes
    /\ run = EmptyArr
    /\ \E shape \in IdxShapes :
          \/ \E l \in 0 .. Product(shape) - 1 :
                ia = [mode |-> "L", step |-> 0, shape |-> shape,
                      lin0 |-> l, idx0 |-> NoIdx, lin1 |-> -1, idx1 |-> NoIdx]
          \/ \E idx \in ValidIndices(shape) :
                ia = [mode |-> "M", step |-> 0, shape |-> shape,
                      lin0 |-> -1, idx0 |-> idx, lin1 |-> -1, idx1 |-> NoIdx]

\* a call of getMultiDimIndex on the linear index at hand
CallGetMultiDimIndex ==
    /\ \/ /\ ia.mode = "L" /\ ia.step = 0
          /\ ia' = [ia EXCEPT !.idx1 = getMultiDimIndex(ia.lin0, ia.shape),
                              !.step = 1]
       \/ /\ ia.mode = "M" /\ ia.step = 1
          /\ ia' = [ia EXCEPT !.idx1 = getMultiDimIndex(ia.lin1, ia.shape),
                              !.step = 2]
    /\ UNCHANGED <<asserts, op, res, run>>

\* a call of getLinearIndex on the multi-dimensional index at hand
CallGetLinearIndex ==
    /\ \/ /\ ia.mode = "L" /\ ia.step = 1
          /\ ia' = [ia EXCEPT !.lin1 = getLinearIndex(ia.idx1, ia.shape),
                              !.step = 2]
       \/ /\ ia.mode = "M" /\ ia.step = 0
          /\ ia' = [ia EXCEPT !.lin1 = getLinearIndex(ia.idx0, ia.shape),
                              !.step = 1]
    /\ UNCHANGED <<asserts, op, res, run>>

IdxNext == CallGetMultiDimIndex \/ CallGetLinearIndex

SpecIndex == IdxInit /\ [][IdxNext]_vars

\* C7: getMultiDimIndex and getLinearIndex are mutually inverse row-major maps:
\* a linear index l < product(shape) decomposes into components within the
\* extents and recomposes to l, and an index within the extents recomposes
\* to a linear index that decomposes to the same index.
C7_RoundTrip ==
    /\ (ia.mode = "L" /\ ia.step >= 1) =>
          \A d \in DOMAIN ia.shape : 0 <= ia.idx1[d] /\ ia.idx1[d] < ia.shape[d]
    /\ (ia.mode = "L" /\ ia.step = 2) => ia.lin1 = ia.lin0
    /\ (ia.mode = "M" /\ ia.step >= 1) =>
          0 <= ia.lin1 /\ ia.lin1 < Product(ia.shape)
    /\ (ia.mode = "M" /\ ia.step = 2) => ia.idx1 = ia.idx0

\* both round trips completed on a rank-3 shape with a non-trivial index
C7_Witness ==
    /\ ia.step = 2
    /\ Size(ia.shape) = 3
    /\ \A d \in DOMAIN ia.shape : ia.shape[d] >= 2 /\ ia.idx1[d] >= 1
    /\ ia.shape[1] # ia.shape[2]


----------------------------------------------------------------------------
(* TritonGPUToLLVMTypeConverter::convertTritonTensorType.                  *)

\* the number of fields of the struct type, or no type (llvm::None)
convertTritonTensorType(layout, shape) ==
    IF IsBlocked(layout)
    THEN [status |-> "success", arity |-> getElemsPerThread(layout, shape)]
    ELSE [status |-> "failure", arity |-> 0]

----------------------------------------------------------------------------
(* A method called on the null attribute that dyn_cast gives for a layout  *)
(* that is not blocked reads through a null pointer: undefined behaviour.  *)
(* A build traps ("crash") or goes on with whatever it read; the model     *)
(* lets it go on with any element count in 0 .. MaxJunk and values that    *)
(* are junk.                                                               *)

Junk == -2

\* a slot of a value list that was never assigned (a null Value)
Unset == -1

NullLayoutOutcomes ==
    {[status |-> "crash", vals |-> EmptyArr]} \cup
    {[status |-> "success", vals |-> [n \in 0 .. c - 1 |-> Junk]] :
        c \in 0 .. MaxJunk}

----------------------------------------------------------------------------
(* MakeRangeOpConversion::matchAndRewrite.                                 *)
(*                                                                         *)
(* retVals[n] is the emitted sum multiDimIdx[n][0] + start; the result     *)
(* keeps the constant part, offs[n][0] + start, as vals[n], and            *)
(* makeRangeValue adds the thread's base.                                  *)

MakeRangeOutcomes(withAsserts, o) ==
    IF ~IsBlocked(o.layout) THEN NullLayoutOutcomes
    ELSE {[status |-> e.status,
           vals |-> [n \in DOMAIN e.offs |-> e.offs[n][0] + o.start]] :
             e \in EmitOutcomes(withAsserts, o.layout, o.shape)}

makeRangeValue(layout, vals, threadId, n) ==
    multiDimBase(layout, threadId)[0] + vals[n]

----------------------------------------------------------------------------
(* getStructFromElements and getElementsFromStruct. A struct value is the  *)
(* array of its fields; a field never inserted is undefined, which reads   *)
(* as junk. Reading the type of a field past the last one is a read past   *)
(* the end of an ArrayRef.                                                 *)

\* a struct built by inserting every value at position 0
getStructFromElements_AtZero(resultVals, structType) ==
    [i \in 0 .. structType - 1 |->
        IF i = 0 /\ Size(resultVals) > 0 THEN resultVals[Size(resultVals) - 1]
        ELSE Junk]

\* structType is the number of fields of the struct type, here never less
\* than the number of values
getStructFromElements(resultVals, structType) ==
    [i \in 0 .. structType - 1 |->
        IF i < Size(resultVals) THEN resultVals[i] ELSE Junk]

getElementsFromStruct(llvmStruct, elems) ==
    [i \in 0 .. elems - 1 |-> IF i < Size(llvmStruct) THEN llvmStruct[i] ELSE Junk]

\* the converted operand of a lowering rule: a struct whose i-th field holds
\* the value i
OperandStruct(fields) == [i \in 0 .. fields - 1 |-> i]

\* what a lowering that unpacks `elems` values from `fields` fields and goes
\* on to compute vals can end in: ArrayRef's assertion ("fatal") in a build
\* with assertions, a trap or the values read otherwise
UnpackOutcomes(withAsserts, fields, elems, vals) ==
    IF elems <= fields THEN {[status |-> "success", vals |-> vals]}
    ELSE IF withAsserts THEN {[status |-> "fatal", vals |-> EmptyArr]}
    ELSE {[status |-> "crash", vals |-> EmptyArr],
          [status |-> "success", vals |-> vals]}

----------------------------------------------------------------------------
(* ViewOpConversion::matchAndRewrite. o.srcFields is the number of fields  *)
(* of the converted source operand.                                        *)

ViewOutcomes(withAsserts, o) ==
    IF ~IsBlocked(o.layout) THEN NullLayoutOutcomes
    ELSE LET elems == getElemsPerThread(o.layout, o.shape)
         IN UnpackOutcomes(withAsserts, o.srcFields, elems,
                           getElementsFromStruct(OperandStruct(o.srcFields), elems))

----------------------------------------------------------------------------
(* BroadcastOpConversion::matchAndRewrite. The source struct has           *)
(* getElemsPerThread(srcLayout, srcShape) fields (convertTritonTensorType) *)
(* and its i-th field holds the value i.                                   *)

bcNumCtas(o, d) == o.resultShape[d] \div TileSize(o.layout, d)

bcIsBroadcastDim(o, d) == o.srcShape[d] # o.resultShape[d]

bcRank(o) == Size(o.srcShape)

srcLogicalShape(o) ==
    [x \in 0 .. 2 * bcRank(o) - 1 |->
        LET d == x % bcRank(o) IN
        IF bcIsBroadcastDim(o, d) THEN 1
        ELSE IF x < bcRank(o) THEN bcNumCtas(o, d)
        ELSE o.layout.sizePerThread[d]]

resultLogicalShape(o) ==
    [x \in 0 .. 2 * bcRank(o) - 1 |->
        LET d == x % bcRank(o) IN
        IF x < bcRank(o) THEN bcNumCtas(o, d) ELSE o.layout.sizePerThread[d]]

\* the dimensions pushed to broadcastDims, in the order pushed
RECURSIVE bcDimsFrom(_, _)
bcDimsFrom(o, d) ==
    IF d >= bcRank(o) THEN <<>>
    ELSE (IF bcIsBroadcastDim(o, d) THEN <<d>> ELSE <<>>) \o bcDimsFrom(o, d + 1)

broadcastDims(o) ==
    LET ds == bcDimsFrom(o, 0) IN [x \in 0 .. Len(ds) - 1 |-> ds[x + 1]]

broadcastSizes(o) ==
    LET dims == broadcastDims(o) IN [x \in DOMAIN dims |-> o.resultShape[dims[x]]]

duplicates(o) == Product(broadcastSizes(o))

\* resultLinearIndex of source element i and duplicate j
resultLinearIndex(o, i, j) ==
    LET srcMultiDim == getMultiDimIndex(i, srcLogicalShape(o))
        bcastMultiDim == getMultiDimIndex(j, broadcastSizes(o))
        dims == broadcastDims(o)
        resultMultiDim ==
            [x \in DOMAIN srcMultiDim |->
                IF \E y \in DOMAIN dims : dims[y] = x
                THEN bcastMultiDim[CHOOSE y \in DOMAIN dims : dims[y] = x]
                ELSE srcMultiDim[x]]
    IN getLinearIndex(resultMultiDim, resultLogicalShape(o))

\* resultVals after the two loops: the slot n holds the source value of the
\* last write to it
broadcastResultVals(o) ==
    LET srcElems == getElemsPerThread(o.layout, o.srcShape)
        resultElems == getElemsPerThread(o.layout, o.resultShape)
        writes == (0 .. srcElems - 1) \X (0 .. duplicates(o) - 1)
        later(a, b) == a[1] > b[1] \/ (a[1] = b[1] /\ a[2] > b[2])
    IN [n \in 0 .. resultElems - 1 |->
           LET to == {w \in writes : resultLinearIndex(o, w[1], w[2]) = n}
           IN IF to = {} THEN Unset
              ELSE (CHOOSE w \in to : \A v \in to : v = w \/ later(w, v))[1]]

\* whether some write resultVals[resultLinearIndex] = .. is past the end
broadcastWritesPastEnd(o) ==
    \E i \in 0 .. getElemsPerThread(o.layout, o.srcShape) - 1 :
        \E j \in 0 .. duplicates(o) - 1 :
            resultLinearIndex(o, i, j) >= getElemsPerThread(o.layout, o.resultShape)

\* whether the index algebra divides by zero in the loops
broadcastDividesByZero(o) ==
    /\ getElemsPerThread(o.layout, o.srcShape) > 0
    /\ DivByZeroIn(srcLogicalShape(o)) \/ DivByZeroIn(resultLogicalShape(o))

\* The outcomes: the two assertions on the layouts and the extents end a
\* build with assertions ("fatal"); a write past the end of resultVals fails
\* SmallVector's assertion there, and otherwise traps or lands outside the
\* vector and leaves the slots as they are.
BroadcastOutcomes(withAsserts, o) ==
    LET badExtent == \E d \in DOMAIN o.srcShape :
                        bcIsBroadcastDim(o, d) /\ o.srcShape[d] # 1
    IN IF withAsserts /\ (~IsBlocked(o.layout) \/ badExtent)
       THEN {[status |-> "fatal", vals |-> EmptyArr]}
       ELSE IF ~IsBlocked(o.layout) THEN NullLayoutOutcomes
       ELSE (IF broadcastDividesByZero(o)
             THEN {[status |-> "crash", vals |-> EmptyArr]} ELSE {})
            \cup
            (IF broadcastWritesPastEnd(o)
             THEN (IF withAsserts
                   THEN {[status |-> "fatal", vals |-> EmptyArr]}
                   ELSE {[status |-> "crash", vals |-> EmptyArr],
                         [status |-> "success", vals |-> broadcastResultVals(o)]})
             ELSE {[status |-> "success", vals |-> broadcastResultVals(o)]})

----------------------------------------------------------------------------
(* LoadOpConversion::matchAndRewrite.                                      *)
(*                                                                         *)
(* A load operation o has the result's layout and shape, the element type  *)
(* (o.isInt, o.nbits), the flags, and `other`: whether it is a constant    *)
(* (m_Constant matches) and its per-element values base + step * j, a      *)
(* splat iff step = 0. Values are two's complement integers; a word is the *)
(* array of its bytes, lowest first, which is what bitcast between a       *)
(* vector of elements and an integer preserves on the (little-endian)      *)
(* target.                                                                 *)

RECURSIVE ByteAt(_, _)
ByteAt(v, b) == IF b = 0 THEN v % 256 ELSE ByteAt(v \div 256, b - 1)

\* the lowest n bytes of v
Bytes(v, n) == [b \in 0 .. n - 1 |-> ByteAt(v, b)]

\* bytes from .. from + n - 1 of a byte array
Slice(bytes, from, n) == [b \in 0 .. n - 1 |-> bytes[from + b]]

ldVecWidth(o) == o.layout.sizePerThread[o.layout.order[0]]

ldNumElems(o) == getElemsPerThread(o.layout, o.shape)

\* a max_word_width of 64 bits whatever the element
ldMaxWordWidth_64(o) == Max(64, o.nbits)

ldMaxWordWidth(o) == Max(32, o.nbits)

ldTotWidth(o) == o.nbits * ldVecWidth(o)

ldWidth(o) == Min(ldTotWidth(o), ldMaxWordWidth(o))

ldNWords(o) == Max(1, ldTotWidth(o) \div ldWidth(o))

\* `size` (line 693) and `tmp` (line 771): elements per word
ldElemsPerWord(o) == ldWidth(o) \div o.nbits

has_l2_evict_policy == FALSE

otherIsSplatConstInt(o) == o.isInt /\ o.other.const /\ o.other.step = 0

ldOtherVal(o, j) == o.other.base + o.other.step * j

\* the first elements of the groups: i = 0, vecWidth, 2 * vecWidth, ..
ldGroupStarts(o) ==
    LET n == ldNumElems(o)
        vec == ldVecWidth(o)
    IN [g \in 0 .. ((n + vec - 1) \div vec) - 1 |-> g * vec]

\* the opcode's qualifiers, in the order written to the template
ldQualifiers(o) ==
    (IF o.isVolatile THEN <<".volatile">> ELSE <<>>) \o <<".global">>
    \o (IF o.cache = "CA" THEN <<".ca">> ELSE <<>>)
    \o (IF o.cache = "CG" THEN <<".cg">> ELSE <<>>)
    \o (IF o.evict = "EVICT_FIRST" THEN <<".L1::evict_first">> ELSE <<>>)
    \o (IF o.evict = "EVICT_LAST" THEN <<".L1::evict_last">> ELSE <<>>)
    \o (IF has_l2_evict_policy THEN <<".L2::cache_hint">> ELSE <<>>)

\* the register constraint letter of a word
ldConstraint(width) == IF width = 64 THEN "l" ELSE IF width = 32 THEN "r" ELSE "c"

\* the fallback word ii of the group at i: the bitcast of the vector of
\* otherVals[i + ii * size + s]
ldOtherWord(o, i, ii) ==
    LET size == ldElemsPerWord(o)
        nb == o.nbits \div 8
    IN [b \in 0 .. size * nb - 1 |->
           Bytes(ldOtherVal(o, i + ii * size + (b \div nb)), nb)[b % nb]]

\* `others`: the fallback words pushed for the group at i
ldOthers(o, i) ==
    IF otherIsSplatConstInt(o) THEN EmptyArr
    ELSE [ii \in 0 .. ldNWords(o) - 1 |-> ldOtherWord(o, i, ii)]

\* The inline asm of the group at i. Placeholders are kept as numbers ($k is
\* k). args is the operand list passed to InlineAsmOp.
ldInst(o, i) ==
    LET n_words == ldNWords(o)
        width == ldWidth(o)
        l2 == IF has_l2_evict_policy THEN 1 ELSE 0
    IN [predicate |-> n_words,
        qualifiers |-> ldQualifiers(o),
        vec |-> IF n_words > 1 THEN n_words ELSE 0,
        width |-> width,
        rets |-> [ii \in 0 .. n_words - 1 |-> ii],
        addr |-> n_words + 1,
        offset |-> 0,
        movs |-> [ii \in 0 .. n_words - 1 |->
                     [predicate |-> n_words, width |-> width, dst |-> ii,
                      imm |-> otherIsSplatConstInt(o),
                      value |-> IF otherIsSplatConstInt(o) THEN o.other.base ELSE 0,
                      operand |-> IF otherIsSplatConstInt(o) THEN -1
                                  ELSE n_words + l2 + 2 + ii]],
        retTys |-> [ii \in 0 .. n_words - 1 |-> width],
        outConstraints |-> [ii \in 0 .. n_words - 1 |-> "=" \o ldConstraint(width)],
        inConstraints |->
            [x \in 0 .. 1 + Size(ldOthers(o, i)) + l2 |->
                IF x = 0 THEN "b"
                ELSE IF x = 1 THEN "l"
                ELSE IF x < 2 + Size(ldOthers(o, i)) THEN ldConstraint(width)
                ELSE "l"],
        args |-> [x \in 0 .. 1 |->
                     IF x = 0 THEN [kind |-> "mask", elem |-> i]
                     ELSE [kind |-> "ptr", elem |-> i]]]

\* where the emitted extractelement of element ii of a group reads:
\* rets[ii / tmp] at ii % tmp
ldLoadedRef(o, g, ii) ==
    [group |-> g, word |-> ii \div ldElemsPerWord(o), lane |-> ii % ldElemsPerWord(o)]

\* loadedVals: vecWidth entries for every group
ldLoadedVals(o) ==
    LET vec == ldVecWidth(o) IN
    [p \in 0 .. Size(ldGroupStarts(o)) * vec - 1 |->
        ldLoadedRef(o, p \div vec, p % vec)]

\* whether the rewrite reads otherVals[i + ii * size + s] past the numElems
\* values unpacked, or rets[ii / tmp] past the n_words words pushed
ldReadsPastEnd(o) ==
    LET starts == ldGroupStarts(o) IN
    \/ \E g \in DOMAIN starts :
          starts[g] + ldNWords(o) * ldElemsPerWord(o) > ldNumElems(o)
    \/ /\ Size(starts) > 0
       /\ (ldVecWidth(o) - 1) \div ldElemsPerWord(o) >= ldNWords(o)

NoInsts == EmptyArr

\* The outcomes of the rewrite: the assertion on the layout, and those of
\* SmallVector on a read past the end, end a build with assertions
\* ("fatal"); without them the rewrite traps or goes on with what it read.
LoadOutcomes(withAsserts, o) ==
    IF ~IsBlocked(o.layout)
    THEN IF withAsserts THEN {[status |-> "fatal", insts |-> NoInsts, vals |-> EmptyArr]}
         ELSE {[status |-> r.status, insts |-> NoInsts, vals |-> r.vals] :
                  r \in NullLayoutOutcomes}
    ELSE LET done == [status |-> "success",
                      insts |-> [g \in DOMAIN ldGroupStarts(o) |->
                                    ldInst(o, ldGroupStarts(o)[g])],
                      vals |-> ldLoadedVals(o)]
         IN IF ~ldReadsPastEnd(o) THEN {done}
            ELSE IF withAsserts
            THEN {[status |-> "fatal", insts |-> NoInsts, vals |-> EmptyArr]}
            ELSE {[status |-> "crash", insts |-> NoInsts, vals |-> EmptyArr], done}

----------------------------------------------------------------------------
(* The emitted load, run by a thread.                                      *)

\* whether the inline asm has an operand for every input constraint and for
\* every placeholder of its template
ldWellFormed(inst) ==
    LET nOps == Size(inst.rets) + Size(inst.args) IN
    /\ Size(inst.inConstraints) = Size(inst.args)
    /\ Size(inst.outConstraints) = Size(inst.retTys)
    /\ inst.predicate < nOps /\ inst.addr < nOps
    /\ \A ii \in DOMAIN inst.movs : inst.movs[ii].imm \/ inst.movs[ii].operand < nOps

\* the value in memory of the element j of the lane: any value unlike the
\* fallbacks
ldMemVal(j) == 100 + j

\* the n_words words in memory at the group's pointer, given that the group's
\* elements lie there one after the other
ldMemWord(o, i, ii) ==
    LET nb == o.nbits \div 8
        wb == ldWidth(o) \div 8
    IN [b \in 0 .. wb - 1 |->
           Bytes(ldMemVal(i + (ii * wb + b) \div nb), nb)[(ii * wb + b) % nb]]

\* The words the instruction of group g leaves in its results: the memory
\* words under a true predicate, and under a false one what each mov moves:
\* the immediate (a 64-bit literal, cut to the word) or the operand.
ldExecWords(o, inst, g, pred) ==
    LET i == ldGroupStarts(o)[g]
        wb == inst.width \div 8
    IN [ii \in DOMAIN inst.rets |->
           IF pred THEN ldMemWord(o, i, ii)
           ELSE IF inst.movs[ii].imm THEN Bytes(inst.movs[ii].value, wb)
           ELSE ldOthers(o, i)[inst.movs[ii].operand - Size(inst.rets) - 2]]

\* the element the emitted extractelement of position p yields
ldLoadedElem(o, ref, words) ==
    LET nb == o.nbits \div 8 IN
    IF ref.word \in DOMAIN words THEN Slice(words[ref.word], ref.lane * nb, nb)
    ELSE EmptyArr

----------------------------------------------------------------------------
(* The lowering rules, each applied to one operation.                      *)

MaxRank == 2

\* the largest product of all of a layout's sizePerThread, threadsPerWarp
\* and warpsPerCTA entries
MaxTile == 4

\* the largest number of elements of a tensor
MaxElems == 8

\* the largest start of a make_range
MaxStart == 1

Perms(r) ==
    {o \in [0 .. r - 1 -> 0 .. r - 1] :
        \A i, j \in 0 .. r - 1 : o[i] = o[j] => i = j}

\* (sizePerThread[d], threadsPerWarp[d], warpsPerCTA[d]) of one dimension
DimParams ==
    {p \in (1 .. MaxTile) \X (1 .. MaxTile) \X (1 .. MaxTile) :
        p[1] * p[2] * p[3] <= MaxTile}

BlockedLayouts(r) ==
    {[kind |-> "blocked",
      sizePerThread |-> [d \in 0 .. r - 1 |-> ps[d][1]],
      threadsPerWarp |-> [d \in 0 .. r - 1 |-> ps[d][2]],
      warpsPerCTA |-> [d \in 0 .. r - 1 |-> ps[d][3]],
      order |-> o] :
        ps \in {q \in [0 .. r - 1 -> DimParams] :
                   Product([d \in 0 .. r - 1 |-> q[d][1] * q[d][2] * q[d][3]])
                       <= MaxTile},
        o \in Perms(r)}

OtherLayouts == {[kind |-> "mma"], [kind |-> "shared"]}

Layouts(r) == BlockedLayouts(r) \cup OtherLayouts

Shapes(r) == {sh \in [0 .. r - 1 -> 1 .. MaxElems] : Product(sh) <= MaxElems}

Ranks == 1 .. MaxRank

\* convertTritonTensorType on a tensor type
TypeCalls(r) ==
    {[kind |-> "type", layout |-> l, shape |-> sh] :
        l \in Layouts(r), sh \in Shapes(r)}

\* direct calls of emitIndicesForBlockedLayout
EmitCalls(r) ==
    {[kind |-> "emit", layout |-> l, shape |-> sh] :
        l \in BlockedLayouts(r), sh \in Shapes(r)}

\* make_range operations: the result is a rank-1 tensor of i32
MakeRangeOps ==
    {[kind |-> "make_range", layout |-> l, shape |-> sh, start |-> st] :
        l \in Layouts(1), sh \in Shapes(1), st \in 0 .. MaxStart}

\* view operations: the source holds as many elements as the result, spread
\* over a number of threads that divides it
ViewOps(r) ==
    {[kind |-> "view", layout |-> l, shape |-> sh, srcFields |-> f] :
        l \in Layouts(r), sh \in Shapes(r),
        f \in {g \in 1 .. MaxElems : \E sh2 \in Shapes(r) : g = Product(sh2)}}

\* broadcast operations: source and result share the layout, and every
\* source extent is the result's or 1
BroadcastShapes(r) ==
    {p \in Shapes(r) \X Shapes(r) :
        \A d \in 0 .. r - 1 : p[1][d] = p[2][d] \/ p[1][d] = 1}

BroadcastOps(r) ==
    {[kind |-> "broadcast", layout |-> l, srcShape |-> p[1], resultShape |-> p[2]] :
        l \in Layouts(r), p \in BroadcastShapes(r)}

\* the element types: integers and floats of whole bytes
ElemTypes ==
    {[isInt |-> TRUE, nbits |-> b] : b \in {8, 16, 32, 64}} \cup
    {[isInt |-> FALSE, nbits |-> b] : b \in {16, 32, 64}}

\* the largest fallback value
MaxOther == 1

Others ==
    {[const |-> c, base |-> b, step |-> st] :
        c \in BOOLEAN, b \in -1 .. MaxOther, st \in 0 .. 1}

DefaultFlags == [isVolatile |-> FALSE, cache |-> "NONE", evict |-> "NORMAL"]

\* flag settings that between them write every qualifier
FlagSets ==
    {DefaultFlags,
     [isVolatile |-> TRUE, cache |-> "CA", evict |-> "EVICT_FIRST"],
     [isVolatile |-> FALSE, cache |-> "CG", evict |-> "EVICT_LAST"]}

LoadOp(l, sh, ty, other, flags) ==
    [kind |-> "load", layout |-> l, shape |-> sh, isInt |-> ty.isInt,
     nbits |-> ty.nbits, other |-> other, isVolatile |-> flags.isVolatile,
     cache |-> flags.cache, evict |-> flags.evict]

\* loads of i32 with a constant zero fallback, over every layout and shape
PlainLoadOps(r) ==
    {LoadOp(l, sh, [isInt |-> TRUE, nbits |-> 32],
            [const |-> TRUE, base |-> 0, step |-> 0], DefaultFlags) :
        l \in Layouts(r), sh \in Shapes(r)}

\* the largest number of elements a thread loads in SpecLoad
LdMaxElems == 4

\* loads of every element type, fallback and flag setting, by a single thread
\* that owns the whole rank-1 tensor in runs of sizePerThread[0] elements
TypedLoadOps ==
    {LoadOp(l, sh, ty, other, flags) :
        l \in {x \in BlockedLayouts(1) :
                  x.threadsPerWarp[0] = 1 /\ x.warpsPerCTA[0] = 1},
        sh \in {x \in Shapes(1) : x[0] <= LdMaxElems},
        ty \in ElemTypes, other \in Others, flags \in FlagSets}

Init ==
    /\ ia = [mode |-> "none"]
    /\ asserts \in BOOLEAN
    /\ \E r \in Ranks :
          op \in TypeCalls(r) \cup EmitCalls(r) \cup ViewOps(r)
                    \cup BroadcastOps(r) \cup PlainLoadOps(r)
                    \cup (IF r = 1 THEN MakeRangeOps ELSE {})
    /\ res = NoRes
    /\ run = EmptyArr

Pending(kind) == op.kind = kind /\ res.status = "none"

\* convertTritonTensorType(type)
ConvertTensorType ==
    /\ Pending("type")
    /\ res' = convertTritonTensorType(op.layout, op.shape)
    /\ UNCHANGED <<ia, asserts, op, run>>

\* emitIndicesForBlockedLayout(blocked_layout, shape)
EmitIndices ==
    /\ Pending("emit")
    /\ res' \in EmitOutcomes(asserts, op.layout, op.shape)
    /\ UNCHANGED <<ia, asserts, op, run>>

LowerMakeRange ==
    /\ Pending("make_range")
    /\ res' \in MakeRangeOutcomes(asserts, op)
    /\ UNCHANGED <<ia, asserts, op, run>>

LowerView ==
    /\ Pending("view")
    /\ res' \in ViewOutcomes(asserts, op)
    /\ UNCHANGED <<ia, asserts, op, run>>

LowerBroadcast ==
    /\ Pending("broadcast")
    /\ res' \in BroadcastOutcomes(asserts, op)
    /\ UNCHANGED <<ia, asserts, op, run>>

LowerLoad ==
    /\ Pending("load")
    /\ res' \in LoadOutcomes(asserts, op)
    /\ UNCHANGED <<ia, asserts, op, run>>

Next ==
    \/ ConvertTensorType
    \/ EmitIndices
    \/ LowerMakeRange
    \/ LowerView
    \/ LowerBroadcast
    \/ LowerLoad

Spec == Init /\ [][Next]_vars

----------------------------------------------------------------------------
(* The load lowering on its own, with a thread that runs the emitted       *)
(* groups in order, each under a predicate of its own.                     *)

LoadInit ==
    /\ ia = [mode |-> "none"]
    /\ asserts \in BOOLEAN
    /\ op \in TypedLoadOps
    /\ res = NoRes
    /\ run = EmptyArr

\* The thread runs the next group: its mask value is pred. An inline asm
\* whose operands do not match its constraints and placeholders is rejected
\* when the module is translated, and computes nothing ("invalid").
ExecLoad ==
    /\ op.kind = "load" /\ res.status = "success"
    /\ Size(run) < Size(res.insts)
    /\ \E pred \in BOOLEAN :
          LET g == Size(run)
              inst == res.insts[g]
              vec == ldVecWidth(op)
              entry ==
                  IF ldWellFormed(inst)
                  THEN [status |-> "ok", pred |-> pred,
                        elems |-> [e \in 0 .. vec - 1 |->
                                      ldLoadedElem(op, res.vals[g * vec + e],
                                                   ldExecWords(op, inst, g, pred))]]
                  ELSE [status |-> "invalid", pred |-> pred, elems |-> EmptyArr]
          IN run' = [x \in 0 .. g |-> IF x < g THEN run[x] ELSE entry]
    /\ UNCHANGED <<ia, asserts, op, res>>

LoadNext == LowerLoad \/ ExecLoad

SpecLoad == LoadInit /\ [][LoadNext]_vars

----------------------------------------------------------------------------
(* The claims about emitIndicesForBlockedLayout.                           *)

\* the logical indices of a tensor of this shape
LogicalIndices(shape) ==
    {i \in [DOMAIN shape -> 0 .. MaxElems - 1] :
        \A d \in DOMAIN shape : i[d] < shape[d]}

\* the (thread, position) pairs of a block and the index each produces
Positions(layout, offs) == ThreadIds(layout) \X DOMAIN offs

IndexAt(layout, offs, tn) == threadIndices(layout, offs, tn[1])[tn[2]]

EmitDone ==
    op.kind = "emit" /\ res.status = "success" /\ Divisible(op.layout, op.shape)

\* C1: under the divisibility invariant, the indices that
\* emitIndicesForBlockedLayout produces for all lanes together are exactly the
\* logical indices of the tensor, each produced once (so none by two lanes).
C1_Coverage ==
    EmitDone =>
        /\ \A tn \in Positions(op.layout, res.offs) :
              IndexAt(op.layout, res.offs, tn) \in LogicalIndices(op.shape)
        /\ \A i \in LogicalIndices(op.shape) :
              Cardinality({tn \in Positions(op.layout, res.offs) :
                              IndexAt(op.layout, res.offs, tn) = i}) = 1

\* C2: under the divisibility invariant, two consecutive positions of a lane's
\* sequence within one group of vecWidth = sizePerThread[order[0]] positions
\* have indices equal in every dimension but order[0], where the second is
\* larger by 1.
C2_Adjacency ==
    EmitDone =>
        LET vecWidth == op.layout.sizePerThread[op.layout.order[0]] IN
        \A tn \in Positions(op.layout, res.offs) :
            LET n == tn[2] IN
            (n + 1 \in DOMAIN res.offs /\ n \div vecWidth = (n + 1) \div vecWidth) =>
                IndexAt(op.layout, res.offs, <<tn[1], n + 1>>) =
                    [IndexAt(op.layout, res.offs, tn)
                        EXCEPT ![op.layout.order[0]] = @ + 1]

----------------------------------------------------------------------------
(* The claims about the lowering rules.                                    *)

Done(kind) == op.kind = kind /\ res.status # "none"

\* shape[d] / (threadsPerWarp[d] * warpsPerCTA[d]), multiplied over d
ElementsPerLane(layout, shape) ==
    Product([d \in DOMAIN shape |->
                shape[d] \div (layout.threadsPerWarp[d] * layout.warpsPerCTA[d])])

\* whether position n reads offset[k] within its bounds
InTable(layout, shape, n, k) ==
    reorderedMultiDimId(layout, shape, n, k) < offsetSize(layout, shape, k)

\* the offset from the thread's base, in dimension k, of the element at
\* position n of a tensor of this layout and shape
OffsetOf(layout, shape, n, k) ==
    offsetAt(layout, k, reorderedMultiDimId(layout, shape, n, k))

\* C3: a broadcast over a blocked layout assigns every one of the lane's
\* getElemsPerThread(result) slots, and the slot of a result element holds the
\* lane's source value whose index is the result element's, but for the
\* broadcast dimensions (compared here where both positions lie in the
\* offset tables).
C3_BroadcastCorrect ==
    (Done("broadcast") /\ IsBlocked(op.layout)) =>
        /\ res.status = "success"
        /\ Size(res.vals) = getElemsPerThread(op.layout, op.resultShape)
        /\ \A n \in DOMAIN res.vals :
              /\ res.vals[n] \in 0 .. getElemsPerThread(op.layout, op.srcShape) - 1
              /\ \A d \in DOMAIN op.srcShape :
                    (/\ ~bcIsBroadcastDim(op, d)
                     /\ InTable(op.layout, op.resultShape, n, d)
                     /\ InTable(op.layout, op.srcShape, res.vals[n], d))
                    => OffsetOf(op.layout, op.srcShape, res.vals[n], d) =
                           OffsetOf(op.layout, op.resultShape, n, d)

\* C6: on a shape that the layout does not divide, getElemsPerThread (called
\* by convertTritonTensorType) and emitIndicesForBlockedLayout end in the
\* fatal configuration error; neither returns a count or an index list.
C6_NonDivisibleIsFatal ==
    ((Done("type") \/ Done("emit")) /\ IsBlocked(op.layout)
        /\ ~Divisible(op.layout, op.shape))
    => res.status = "fatal"

\* C8: the view lowering returns the source's per-lane values, in order and
\* all of them, and ends in a fatal outcome when the source's per-lane count
\* differs from getElemsPerThread of the result.
C8_ViewKeepsValues ==
    (Done("view") /\ IsBlocked(op.layout)) =>
        IF op.srcFields = getElemsPerThread(op.layout, op.shape)
        THEN /\ res.status = "success"
             /\ res.vals = [i \in 0 .. op.srcFields - 1 |-> i]
        ELSE res.status = "fatal"

\* C9: the struct type of a blocked tensor type has ElementsPerLane fields,
\* and the value list each lowering rule packs for a result of that type has
\* that many entries, none of them unset.
C9_RecordArity ==
    /\ (Done("type") /\ IsBlocked(op.layout)) =>
          res.arity = ElementsPerLane(op.layout, op.shape)
    /\ (Done("emit") /\ res.status = "success") =>
          Size(res.offs) = ElementsPerLane(op.layout, op.shape)
    /\ ((Done("make_range") \/ Done("view")) /\ IsBlocked(op.layout)
           /\ res.status = "success") =>
          /\ Size(res.vals) = ElementsPerLane(op.layout, op.shape)
          /\ \A n \in DOMAIN res.vals : res.vals[n] # Unset
    /\ (Done("broadcast") /\ IsBlocked(op.layout) /\ res.status = "success") =>
          /\ Size(res.vals) = ElementsPerLane(op.layout, op.resultShape)
          /\ \A n \in DOMAIN res.vals : res.vals[n] # Unset
    /\ (Done("load") /\ IsBlocked(op.layout) /\ res.status = "success") =>
          Size(res.vals) = ElementsPerLane(op.layout, op.shape)

\* C10: for a layout that is not blocked, type resolution returns no type, and
\* every lowering rule ends in a fatal-precondition or failed-match outcome;
\* none goes on to produce output.
C10_UnsupportedLayoutFailsCleanly ==
    (res.status # "none" /\ ~IsBlocked(op.layout)) =>
        IF op.kind = "type" THEN res.status = "failure"
        ELSE res.status \in {"fatal", "failure"}

----------------------------------------------------------------------------
(* The claims about the load.                                              *)

\* C4: in every group run under a false predicate, every element of the
\* group's result equals that element's own fallback value, on the general
\* path and on the splat-integer-constant path.
C4_MaskedFallback ==
    (op.kind = "load" /\ res.status = "success") =>
        \A g \in DOMAIN run :
            ~run[g].pred =>
                /\ run[g].status = "ok"
                /\ \A e \in 0 .. ldVecWidth(op) - 1 :
                      run[g].elems[e] =
                          Bytes(ldOtherVal(op, g * ldVecWidth(op) + e),
                                op.nbits \div 8)

\* C5: every emitted instruction has the word width
\* min(max(32, elementBits), elementBits * vecWidth), declares
\* nWords = max(1, elementBits * vecWidth / width) result words of that width,
\* and carries the .v<nWords> suffix iff nWords > 1.
C5_VectorWidth ==
    (op.kind = "load" /\ res.status = "success") =>
        LET vecWidth == op.layout.sizePerThread[op.layout.order[0]]
            width == Min(Max(32, op.nbits), op.nbits * vecWidth)
            nWords == Max(1, (op.nbits * vecWidth) \div width)
        IN \A g \in DOMAIN res.insts :
              /\ res.insts[g].width = width
              /\ Size(res.insts[g].retTys) = nWords
              /\ \A ii \in DOMAIN res.insts[g].retTys :
                    res.insts[g].retTys[ii] = width
              /\ Size(res.insts[g].rets) = nWords
              /\ Size(res.insts[g].outConstraints) = nWords
              /\ (res.insts[g].vec # 0) <=> (nWords > 1)
              /\ nWords > 1 => res.insts[g].vec = nWords

\* a load of 16-bit elements in runs of 4 was lowered: 2 words of 32 bits
C5_Witness ==
    /\ op.kind = "load" /\ res.status = "success"
    /\ op.nbits = 16 /\ ldVecWidth(op) = 4
    /\ Size(res.insts) = 1
    /\ res.insts[0].width = 32 /\ res.insts[0].vec = 2

----------------------------------------------------------------------------
(* ConvertTritonGPUToLLVM::runOnOperation on a module.                     *)
(*                                                                         *)
(* op is the module: its triton_gpu.num-warps attribute (present or not)   *)
(* and its functions, each with the operand count of its return and        *)
(* whether its body holds an operation of the GPU dialect that no pattern  *)
(* converts. res is the state of the pass and run the functions rewritten  *)
(* so far. The conversion target makes the LLVM and NVVM dialects and the  *)
(* cast legal and the GPU dialect illegal; everything else, the functions  *)
(* and returns included, is neither: a partial conversion leaves such an   *)
(* operation in place when no pattern rewrites it, and fails only on an    *)
(* operation that is illegal.                                              *)

MaxWarps == 2

MaxFuncs == 2

MaxRetOperands == 1

Funcs ==
    {[ret |-> k, gpu |-> g] : k \in 0 .. MaxRetOperands, g \in BOOLEAN}

NumWarpsAttrs ==
    {[present |-> FALSE, value |-> 0]} \cup
    {[present |-> TRUE, value |-> w] : w \in 0 .. MaxWarps}

Modules ==
    {[kind |-> "module", numWarps |-> a, funcs |-> fs] :
        a \in NumWarpsAttrs,
        fs \in UNION {[0 .. n - 1 -> Funcs] : n \in 0 .. MaxFuncs}}

\* the legality the target gives an operation
targetLegality(opName) ==
    IF opName \in {"llvm.func", "llvm.return", "unrealized_conversion_cast"}
    THEN "legal"
    ELSE IF opName = "gpu" THEN "illegal"
    ELSE "unknown"

\* the maxntidx of a function, without the warp size
maxntidx_NumWarpsOnly(NumWarps) == NumWarps

\* the value FuncOpConversion sets for NVVMMetadataField::MaxNTid
maxntidx(NumWarps) == 32 * NumWarps

PassInit ==
    /\ ia = [mode |-> "none"]
    /\ asserts \in BOOLEAN
    /\ op \in Modules
    /\ res = NoRes
    /\ run = EmptyArr

\* runOnOperation up to applyPartialConversion: extractNumWarps ends the
\* process when the attribute is missing, and otherwise the patterns are
\* built with its value
ExtractNumWarps ==
    /\ op.kind = "module" /\ res.status = "none"
    /\ res' = IF op.numWarps.present
              THEN [status |-> "converting", NumWarps |-> op.numWarps.value]
              ELSE [status |-> "fatal"]
    /\ UNCHANGED <<ia, asserts, op, run>>

\* FuncOpConversion::matchAndRewrite on the next function: the new function
\* takes the body over, the return in it is still to be legalized
ConvertFunc ==
    /\ op.kind = "module" /\ res.status = "converting"
    /\ Size(run) < Size(op.funcs)
    /\ \A f \in DOMAIN run : run[f].ret # "std.return, pending"
    /\ run' = [f \in 0 .. Size(run) |->
                  IF f < Size(run) THEN run[f]
                  ELSE [name |-> "llvm.func", maxntidx |-> maxntidx(res.NumWarps),
                        ret |-> "std.return, pending"]]
    /\ UNCHANGED <<ia, asserts, op, res>>

\* ReturnOpConversion::matchAndRewrite on the return of the function rewritten
\* last: a match failure when it has operands, else it is replaced
ConvertReturn ==
    /\ op.kind = "module" /\ res.status = "converting"
    /\ Size(run) > 0 /\ run[Size(run) - 1].ret = "std.return, pending"
    /\ LET f == Size(run) - 1
           numArguments == op.funcs[f].ret
       IN run' = [run EXCEPT ![f].ret =
                     IF numArguments > 0 THEN "std.return" ELSE "llvm.return"]
    /\ UNCHANGED <<ia, asserts, op, res>>

\* whether the conversion met an operation it could not legalize and the
\* target calls illegal
conversionFailed ==
    \/ \E f \in DOMAIN op.funcs : op.funcs[f].gpu /\ targetLegality("gpu") = "illegal"
    \/ \E f \in DOMAIN run :
          run[f].ret = "std.return" /\ targetLegality("std.return") = "illegal"

\* the end of applyPartialConversion and of runOnOperation: a failed
\* conversion undoes its rewrites and the pass signals failure
FinishPass ==
    /\ op.kind = "module" /\ res.status = "converting"
    /\ Size(run) = Size(op.funcs)
    /\ \A f \in DOMAIN run : run[f].ret # "std.return, pending"
    /\ IF conversionFailed
       THEN res' = [status |-> "failure", NumWarps |-> res.NumWarps]
            /\ run' = EmptyArr
       ELSE res' = [status |-> "success", NumWarps |-> res.NumWarps]
            /\ run' = run
    /\ UNCHANGED <<ia, asserts, op>>

PassNext ==
    \/ ExtractNumWarps
    \/ ConvertFunc
    \/ ConvertReturn
    \/ FinishPass

SpecPass == PassInit /\ [][PassNext]_vars

PassDone == op.kind = "module" /\ res.status \in {"success", "failure", "fatal"}

\* C11: when ReturnOpConversion declines a return (one with operands) in a
\* module that has the num-warps attribute, the pass ends signalling failure:
\* it neither aborts nor succeeds with the declined return still there.
C11_MatchFailureFailsPass ==
    (PassDone /\ op.numWarps.present
        /\ \E f \in DOMAIN op.funcs : op.funcs[f].ret > 0)
    => res.status = "failure"

----------------------------------------------------------------------------
(* emitIndicesForBlockedLayout on its own, over the layouts and shapes     *)
(* that satisfy the divisibility invariant.                                *)

DivisibleEmitCalls(r) == {c \in EmitCalls(r) : Divisible(c.layout, c.shape)}

EmitInit ==
    /\ ia = [mode |-> "none"]
    /\ asserts \in BOOLEAN
    /\ \E r \in Ranks : op \in DivisibleEmitCalls(r)
    /\ res = NoRes
    /\ run = EmptyArr

EmitNext == EmitIndices

SpecEmit == EmitInit /\ [][EmitNext]_vars

\* C12: under the divisibility invariant any two lanes get sequences of the
\* same length, and at every position and dimension the index less the
\* lane's base offset is the same for both: the offset is a constant of the
\* emitted code.
C12_LaneUniform ==
    EmitDone =>
        \A a, b \in ThreadIds(op.layout) :
            LET idxA == threadIndices(op.layout, res.offs, a)
                idxB == threadIndices(op.layout, res.offs, b)
                baseA == multiDimBase(op.layout, a)
                baseB == multiDimBase(op.layout, b)
            IN /\ Size(idxA) = Size(idxB)
               /\ \A n \in DOMAIN idxA : \A d \in DOMAIN op.shape :
                     idxA[n][d] - baseA[d] = idxB[n][d] - baseB[d]

\* indices were emitted for a block of several lanes with different bases,
\* each owning several elements
C12_Witness ==
    /\ EmitDone
    /\ Size(res.offs) >= 2
    /\ \E a, b \in ThreadIds(op.layout) :
          multiDimBase(op.layout, a) # multiDimBase(op.layout, b)

----------------------------------------------------------------------------
(* The claims about make_range.                                            *)

\* the (thread, position) pairs of a block at which a make_range value lies
RangePositions(layout, vals) == ThreadIds(layout) \X DOMAIN vals

\* C13: a make_range over a blocked layout succeeds, the value of a lane at
\* position n is start + the lane's n-th index, and over all lanes the
\* values are start, start + 1, .., start + shape[0] - 1, each once.
C13_MakeRange ==
    (Done("make_range") /\ IsBlocked(op.layout)) =>
        /\ res.status = "success"
        /\ \E e \in EmitOutcomes(asserts, op.layout, op.shape) :
              /\ e.status = "success"
              /\ DOMAIN e.offs = DOMAIN res.vals
              /\ \A tn \in RangePositions(op.layout, res.vals) :
                    makeRangeValue(op.layout, res.vals, tn[1], tn[2]) =
                        op.start + IndexAt(op.layout, e.offs, tn)[0]
        /\ \A v \in op.start .. op.start + op.shape[0] - 1 :
              Cardinality({tn \in RangePositions(op.layout, res.vals) :
                  makeRangeValue(op.layout, res.vals, tn[1], tn[2]) = v}) = 1
        /\ \A tn \in RangePositions(op.layout, res.vals) :
              makeRangeValue(op.layout, res.vals, tn[1], tn[2])
                  \in op.start .. op.start + op.shape[0] - 1

----------------------------------------------------------------------------
(* getStructFromElements and getElementsFromStruct on their own: a list of *)
(* values is packed into a struct of as many fields, and the struct is     *)
(* unpacked again.                                                         *)

MaxLen == 3

MaxVal == 2

ValueLists == UNION {[0 .. n - 1 -> 0 .. MaxVal] : n \in 0 .. MaxLen}

PackInit ==
    /\ ia = [mode |-> "none"]
    /\ asserts \in BOOLEAN
    /\ op \in {[kind |-> "pack", vals |-> vs] : vs \in ValueLists}
    /\ res = NoRes
    /\ run = EmptyArr

\* getStructFromElements(loc, vals, rewriter, structType)
PackStruct ==
    /\ op.kind = "pack" /\ res.status = "none"
    /\ res' = [status |-> "packed",
               llvmStruct |-> getStructFromElements(op.vals, Size(op.vals))]
    /\ UNCHANGED <<ia, asserts, op, run>>

\* getElementsFromStruct(loc, llvmStruct, elems, rewriter)
UnpackStruct ==
    /\ op.kind = "pack" /\ res.status = "packed"
    /\ res' = [status |-> "unpacked", llvmStruct |-> res.llvmStruct,
               results |-> getElementsFromStruct(res.llvmStruct, Size(op.vals))]
    /\ UNCHANGED <<ia, asserts, op, run>>

PackNext == PackStruct \/ UnpackStruct

SpecPack == PackInit /\ [][PackNext]_vars

\* C14: the struct packed from a list of N values has the list's i-th value
\* as its field i, and unpacking N elements of it returns the list, element
\* for element in the same order.
C14_PackUnpack ==
    /\ (op.kind = "pack" /\ res.status \in {"packed", "unpacked"}) =>
          /\ Size(res.llvmStruct) = Size(op.vals)
          /\ \A i \in DOMAIN op.vals : res.llvmStruct[i] = op.vals[i]
    /\ (op.kind = "pack" /\ res.status = "unpacked") => res.results = op.vals

\* a list of three values, not all the same, went through both
C14_Witness ==
    /\ op.kind = "pack" /\ res.status = "unpacked"
    /\ Size(op.vals) = 3
    /\ op.vals[0] # op.vals[1] /\ op.vals[1] # op.vals[2]

----------------------------------------------------------------------------
(* The claims about the lane's base offset and the offset tables.          *)

\* the product of extents[order[j]] for j < i
RECURSIVE StrideOf(_, _, _)
StrideOf(extents, order, i) ==
    IF i = 0 THEN 1 ELSE extents[order[i - 1]] * StrideOf(extents, order, i - 1)

\* the coordinates of a linear id decomposed against each dimension's own
\* extent, with order[0] varying fastest
CoordsInOrder(linear, extents, order) ==
    [d \in DOMAIN extents |->
        LET i == CHOOSE j \in DOMAIN order : order[j] = d
        IN (linear \div StrideOf(extents, order, i)) % extents[d]]

\* C16: for every lane of the block the coordinates delinearize gives are
\* those of the lane and warp index decomposed against each dimension's own
\* extent with order[0] fastest, so within 0 .. threadsPerWarp[d] - 1 and
\* 0 .. warpsPerCTA[d] - 1, distinct lanes get distinct coordinates, and
\* base[d] = sizePerThread[d] * (laneCoord[d] + warpCoord[d] * threadsPerWarp[d]).
C16_BaseRespectsOrder ==
    (op.kind = "emit" /\ res.status # "none") =>
        LET l == op.layout
            laneCoord(t) == delinearize(laneIdOf(t), l.threadsPerWarp, l.order)
            warpCoord(t) == delinearize(warpIdOf(t), l.warpsPerCTA, l.order)
        IN /\ \A t \in ThreadIds(l) :
                 /\ laneCoord(t) = CoordsInOrder(laneIdOf(t), l.threadsPerWarp, l.order)
                 /\ warpCoord(t) = CoordsInOrder(warpIdOf(t), l.warpsPerCTA, l.order)
                 /\ \A d \in DOMAIN op.shape :
                       /\ laneCoord(t)[d] \in 0 .. l.threadsPerWarp[d] - 1
                       /\ warpCoord(t)[d] \in 0 .. l.warpsPerCTA[d] - 1
                       /\ multiDimBase(l, t)[d] =
                              l.sizePerThread[d] *
                                  (laneCoord(t)[d] + warpCoord(t)[d] * l.threadsPerWarp[d])
           /\ \A t, u \in ThreadIds(l) :
                 (laneCoord(t) = laneCoord(u) /\ warpCoord(t) = warpCoord(u)) => t = u


\* C19: under the divisibility invariant, at every position n of the
\* enumeration and in every dimension k the tile id is below the number of
\* tiles shape[k] / (sizePerThread[k] * threadsPerWarp[k] * warpsPerCTA[k]),
\* the table position lies within offset[k], whose length is shape[k], and
\* so every lane's every index is within the shape.
C19_EnumerationInBounds ==
    (op.kind = "emit" /\ res.status # "none" /\ Divisible(op.layout, op.shape)) =>
        /\ res.status = "success"
        /\ \A k \in DOMAIN op.shape :
              /\ offsetSize(op.layout, op.shape, k) = op.shape[k]
              /\ \A n \in 0 .. emitElemsPerThread(op.layout, op.shape) - 1 :
                    /\ multiDimNanoTileId(op.layout, op.shape, n)[k] <
                           op.shape[k] \div TileSize(op.layout, k)
                    /\ reorderedMultiDimId(op.layout, op.shape, n, k) <
                           offsetSize(op.layout, op.shape, k)
        /\ \A tn \in Positions(op.layout, res.offs) : \A k \in DOMAIN op.shape :
              IndexAt(op.layout, res.offs, tn)[k] \in 0 .. op.shape[k] - 1

----------------------------------------------------------------------------
(* The claims about the groups and the template of the load.               *)

\* C17: where the lane's element count is a multiple of vecWidth, the load
\* is lowered to numElems / vecWidth instructions, group g on the mask and
\* pointer of element g * vecWidth; the flat result has at g * vecWidth + e
\* the element at e mod k of word e div k of group g (k = width /
\* elementBits); every such word is one of the nWords returned
\* (nWords * k = vecWidth), and every fallback element read,
\* i + ii * k + s, is one of the numElems unpacked.
C17_Reassembly ==
    (Done("load") /\ IsBlocked(op.layout)
        /\ ldNumElems(op) % ldVecWidth(op) = 0) =>
        LET vecWidth == ldVecWidth(op)
            numElems == ldNumElems(op)
            k == ldWidth(op) \div op.nbits
            nWords == ldNWords(op)
        IN /\ res.status = "success"
           /\ Size(res.insts) = numElems \div vecWidth
           /\ \A g \in DOMAIN res.insts :
                 /\ res.insts[g].args[0] = [kind |-> "mask", elem |-> g * vecWidth]
                 /\ res.insts[g].args[1] = [kind |-> "ptr", elem |-> g * vecWidth]
                 /\ Size(res.insts[g].rets) = nWords
                 /\ \A ii \in 0 .. nWords - 1 : \A s \in 0 .. k - 1 :
                       g * vecWidth + ii * k + s < numElems
           /\ Size(res.vals) = numElems
           /\ \A g \in DOMAIN res.insts : \A e \in 0 .. vecWidth - 1 :
                 /\ res.vals[g * vecWidth + e] =
                        [group |-> g, word |-> e \div k, lane |-> e % k]
                 /\ e \div k < nWords
           /\ nWords * k = vecWidth

\* C18: every emitted instruction has as many input constraints as operands
\* and nWords output constraints, and every placeholder of its template (the
\* predicate, the results, the address and the operands of the fallback
\* moves) is below nWords + the number of operands, on the splat constant
\* path and on the path that passes the fallback words as operands.
C18_OperandsMatchTemplate ==
    (op.kind = "load" /\ res.status = "success") =>
        \A g \in DOMAIN res.insts :
            LET inst == res.insts[g]
                nWords == ldNWords(op)
                nOps == nWords + Size(inst.args)
            IN /\ Size(inst.inConstraints) = Size(inst.args)
               /\ Size(inst.outConstraints) = nWords
               /\ inst.predicate < nOps
               /\ inst.addr < nOps
               /\ \A ii \in DOMAIN inst.rets : inst.rets[ii] < nOps
               /\ \A ii \in DOMAIN inst.movs :
                     /\ inst.movs[ii].dst < nOps
                     /\ ~inst.movs[ii].imm => inst.movs[ii].operand < nOps

=============================================================================
